---- MODULE Spec2Model ----
(***************************************************************************)
(* Structural validators of hydrolib.core.io.ini.util: the root validators *)
(* that check one attribute mapping ("values") of an INI based model.      *)
(*                                                                         *)
(* A mapping is a function from the lower-cased field names to values.  A  *)
(* key the dict does not hold maps to Absent; a key held with the value    *)
(* None maps to None: values.get(name) reads both as None, while an        *)
(* assignment values[name] = v makes the key present.                      *)
(***************************************************************************)
EXTENDS Integers, Sequences, FiniteSets, TLC

VARIABLES
    rule,     \* the validator instance: the arguments its factory was called with
    input,    \* the mapping a root validator was called with (the field's value,
              \* for the validator of a field)
    values,   \* the dict object handed to the validator, as it is now (the
              \* field's value, as it is now)
    pc,       \* "raw": not validated yet; "done": the validator has run (the
              \* validation of a record: all its validators have)
    raised,   \* whether the validator raised an exception
    msg,      \* that ValueError's message: the pieces of its f-string, the literal
              \* text and the formatted values in order (<<>> when none)
    calls     \* the helper functions the validator invoked, in order ("join":
              \* the value was written as text before it was read); in the
              \* validation of a record, the validator calls made so far
              \* (in the concurrent validation of records every variable
              \* holds one value for each record)

vars == <<rule, input, values, pc, raised, msg, calls>>

MaxLen == 2

\* ------------------------------------------------------------------ values

Absent == [t |-> "absent"]
None == [t |-> "none"]
StrV(s) == [t |-> "str", s |-> s]
IntV(i) == [t |-> "int", i |-> i]
BoolV(b) == [t |-> "bool", b |-> b]
ListV(n) == [t |-> "list", l |-> [k \in 1..n |-> k - 1]]

Max(a, b) == IF a >= b THEN a ELSE b

\* len(v) of a list value
PyLen(v) == IF v.t = "text" THEN Len(v.c) ELSE Len(v.l)

\* str(v), as an f-string formats a value
PyStr(v) ==
    CASE v.t = "str" -> v.s
      [] v.t = "int" -> ToString(v.i)
      [] v.t = "bool" -> IF v.b THEN "True" ELSE "False"
      [] v.t = "list" -> "[" \o ToString(Len(v.l)) \o " items]"
      [] OTHER -> "None"

IsNumber(v) == v.t \in {"int", "bool"}
NumberOf(v) == IF v.t = "int" THEN v.i ELSE IF v.b THEN 1 ELSE 0

\* a == b of two Python values (bool is a subtype of int: False == 0)
PyEq(a, b) ==
    IF IsNumber(a) /\ IsNumber(b) THEN NumberOf(a) = NumberOf(b) ELSE a = b

\* the lower-cased field names, the keys of every mapping
AllFields ==
    {"nodeid", "branchid", "chainage", "xcoordinates", "ycoordinates",
     "numcoordinates", "locationtype"}

EmptyValues == [f \in AllFields |-> Absent]

\* values.get(name)
Get(vals, name) == IF vals[name] = Absent THEN None ELSE vals[name]

\* values[name] = v
Put(vals, name, v) == [vals EXCEPT ![name] = v]

\* what a validator call gives: the exception if it raised, and the dict
\* object as the call left it (the validators return the object they got)
Ok(vals, cs) == [raised |-> FALSE, msg |-> <<>>, values |-> vals, calls |-> cs]
Raise(m, vals, cs) == [raised |-> TRUE, msg |-> m, values |-> vals, calls |-> cs]

\* --------------------------------------------------------- list length rule

\* the message of an incorrect length, format()ed with the two names
_get_incorrect_length_validation_message(r, field_name) ==
    LET incrstring == IF r.length_incr # 0
                      THEN <<" + ", ToString(r.length_incr)>> ELSE <<>>
        minstring == IF r.min_length > 0
                     THEN <<" (and at least ", ToString(r.min_length), ")">> ELSE <<>>
    IN  <<"Number of values for ", field_name, " should be equal to the ",
          r.length_name, " value">> \o incrstring \o minstring \o <<".">>

\* a missing list is an error whenever the flag is set, also for a required
\* length of 0
_validate_listfield_length_any_length(r, field_name, field, requiredlength) ==
    IF field # None /\ PyLen(field) # requiredlength
    THEN _get_incorrect_length_validation_message(r, field_name)
    ELSE IF field = None /\ r.list_required_with_length
    THEN <<"List ", field_name, " cannot be missing if ", r.length_name,
           " is given.">>
    ELSE <<>>

\* <<>> when the field passes, the ValueError's message otherwise
_validate_listfield_length(r, field_name, field, requiredlength) ==
    IF field # None /\ PyLen(field) # requiredlength
    THEN _get_incorrect_length_validation_message(r, field_name)
    ELSE IF field = None /\ r.list_required_with_length /\ requiredlength > 0
    THEN <<"List ", field_name, " cannot be missing if ", r.length_name,
           " is given.">>
    ELSE <<>>

\* the loop over field_names[k..]: each field is read, checked and written back
RECURSIVE ListLengthLoop(_, _, _, _)
ListLengthLoop(r, vals, requiredlength, k) ==
    IF k > Len(r.field_names) THEN Ok(vals, <<>>)
    ELSE LET field_name == r.field_names[k]
             field == Get(vals, field_name)
             m == _validate_listfield_length(r, field_name, field, requiredlength)
         IN  IF m # <<>> THEN Raise(m, vals, <<>>)
             ELSE ListLengthLoop(r, Put(vals, field_name, field), requiredlength, k + 1)

\* the required length without the increment
requiredlength_of_no_incr(r, length) == Max(length.i, r.min_length)

requiredlength_of(r, length) == Max(length.i + r.length_incr, r.min_length)

\* no early return: an absent count is read as a count of 0
validate_correct_length_no_defer(r, vals) ==
    LET length == Get(vals, r.length_name)
    IN  ListLengthLoop(r, vals,
                       requiredlength_of(r, IF length = None THEN IntV(0) ELSE length), 1)

validate_correct_length(r, vals) ==
    LET length == Get(vals, r.length_name)
    IN  IF length = None THEN Ok(vals, <<>>)
        ELSE ListLengthLoop(r, vals, requiredlength_of(r, length), 1)

\* ------------------------------------------------- conditional field rules

\* comparison_func(val, conditional_value), a function of the operator module
Compare(op, a, b) ==
    CASE op = "eq" -> PyEq(a, b)
      [] op = "ne" -> ~PyEq(a, b)
      [] op = "gt" -> NumberOf(a) > NumberOf(b)
      [] op = "lt" -> NumberOf(a) < NumberOf(b)

operator_str(op) ==
    CASE op = "eq" -> "is"
      [] op = "ne" -> "is not"
      [] op = "gt" -> "is greater than"
      [] op = "lt" -> "is less than"

\* the test the three conditional validators start with
ConditionHolds(r, vals) ==
    LET val == Get(vals, r.conditional_field_name)
    IN  val # None /\ Compare(r.comparison_func, val, r.conditional_value)

\* the loop over field_names[k..] of the two validators: the first target
\* field that is given (given = TRUE), or that is missing (given = FALSE);
\* None when the loop ends without one
RECURSIVE FirstField(_, _, _, _)
FirstField(names, vals, given, k) ==
    IF k > Len(names) THEN None
    ELSE IF (Get(vals, names[k]) # None) = given THEN StrV(names[k])
    ELSE FirstField(names, vals, given, k + 1)

ConditionText(r) ==
    <<r.conditional_field_name, " ", operator_str(r.comparison_func), " ",
      PyStr(r.conditional_value)>>

\* a target counts as given only when it is truthy: if values.get(field)
validate_forbidden_fields_truthy(r, vals) ==
    IF ~ConditionHolds(r, vals) THEN Ok(vals, <<>>)
    ELSE LET Falsy == {None, IntV(0), BoolV(FALSE), StrV(""), ListV(0)}
             truthy == [f \in AllFields |-> IF Get(vals, f) \in Falsy THEN None
                                            ELSE Get(vals, f)]
             field == FirstField(r.field_names, truthy, TRUE, 1)
         IN  IF field # None
             THEN Raise(<<field.s, " is forbidden when ">> \o ConditionText(r), vals, <<>>)
             ELSE Ok(vals, <<>>)

validate_forbidden_fields(r, vals) ==
    IF ~ConditionHolds(r, vals) THEN Ok(vals, <<>>)
    ELSE LET field == FirstField(r.field_names, vals, TRUE, 1)
         IN  IF field # None
             THEN Raise(<<field.s, " is forbidden when ">> \o ConditionText(r), vals, <<>>)
             ELSE Ok(vals, <<>>)

\* the targets are checked whenever the comparison does not fail, also when
\* the condition field is absent
validate_required_fields_absent_condition(r, vals) ==
    LET val == Get(vals, r.conditional_field_name)
    IN  IF val # None /\ ~Compare(r.comparison_func, val, r.conditional_value)
        THEN Ok(vals, <<>>)
        ELSE LET field == FirstField(r.field_names, vals, FALSE, 1)
             IN  IF field # None
                 THEN Raise(<<field.s, " should be provided when ">>
                            \o ConditionText(r), vals, <<>>)
                 ELSE Ok(vals, <<>>)

validate_required_fields(r, vals) ==
    IF ~ConditionHolds(r, vals) THEN Ok(vals, <<>>)
    ELSE LET field == FirstField(r.field_names, vals, FALSE, 1)
         IN  IF field # None
             THEN Raise(<<field.s, " should be provided when ">> \o ConditionText(r),
                        vals, <<>>)
             ELSE Ok(vals, <<>>)

\* ---------------------------------------------------------- location rule

LocationType_oned == "1d"

\* the defaults of LocationValidationFieldNames
LocationValidationFieldNames ==
    [node_id |-> "nodeId", branch_id |-> "branchId", chainage |-> "chainage",
     x_coordinates |-> "xCoordinates", y_coordinates |-> "yCoordinates",
     num_coordinates |-> "numCoordinates", location_type |-> "locationType"]

\* name.lower() of a field name
Lower(name) ==
    CASE name = "nodeId" -> "nodeid"
      [] name = "branchId" -> "branchid"
      [] name = "chainage" -> "chainage"
      [] name = "xCoordinates" -> "xcoordinates"
      [] name = "yCoordinates" -> "ycoordinates"
      [] name = "numCoordinates" -> "numcoordinates"
      [] name = "locationType" -> "locationtype"

str_is_empty_or_none(v) == v = None \/ (v.t = "str" /\ v.s = "")

\* len(to_list(value)): a value that is no list counts as a list of one
to_list_len(v) == IF v.t = "list" THEN PyLen(v) ELSE 1

get_length(vals, field) == to_list_len(vals[Lower(field)])

has_node_id(r, vals) == ~str_is_empty_or_none(Get(vals, Lower(r.fields.node_id)))
has_branch_id(r, vals) == ~str_is_empty_or_none(Get(vals, Lower(r.fields.branch_id)))
has_chainage(r, vals) == Get(vals, Lower(r.fields.chainage)) # None
has_x_coordinates(r, vals) == Get(vals, Lower(r.fields.x_coordinates)) # None
has_y_coordinates(r, vals) == Get(vals, Lower(r.fields.y_coordinates)) # None
has_num_coordinates(r, vals) == Get(vals, Lower(r.fields.num_coordinates)) # None

\* a tag that differs from the expected one is overwritten, not refused
validate_location_type_overwrite(r, vals, expected_location_type) ==
    Ok(Put(vals, Lower(r.fields.location_type), StrV(expected_location_type)),
       <<"validate_location_type">>)

\* the location validation that accepts a form without writing the tag
validate_location_type_no_write(r, vals, expected_location_type) ==
    LET location_type == Get(vals, Lower(r.fields.location_type))
    IN  IF str_is_empty_or_none(location_type) \/ location_type = StrV(expected_location_type)
        THEN Ok(vals, <<"validate_location_type">>)
        ELSE Raise(<<r.fields.location_type, " should be ", expected_location_type,
                     " but was ", PyStr(location_type)>>,
                   vals, <<"validate_location_type">>)

\* the expected tag is written before the given one is looked at
validate_location_type_write_first(r, vals, expected_location_type) ==
    LET location_type == Get(vals, Lower(r.fields.location_type))
        written == Put(vals, Lower(r.fields.location_type), StrV(expected_location_type))
    IN  IF str_is_empty_or_none(location_type) \/ location_type = StrV(expected_location_type)
        THEN Ok(written, <<"validate_location_type">>)
        ELSE Raise(<<r.fields.location_type, " should be ", expected_location_type,
                     " but was ", PyStr(location_type)>>,
                   written, <<"validate_location_type">>)

validate_location_type(r, vals, expected_location_type) ==
    LET location_type == Get(vals, Lower(r.fields.location_type))
    IN  IF str_is_empty_or_none(location_type)
        THEN Ok(Put(vals, Lower(r.fields.location_type), StrV(expected_location_type)),
                <<"validate_location_type">>)
        ELSE IF location_type # StrV(expected_location_type)
        THEN Raise(<<r.fields.location_type, " should be ", expected_location_type,
                     " but was ", PyStr(location_type)>>,
                   vals, <<"validate_location_type">>)
        ELSE Ok(vals, <<"validate_location_type">>)

\* accepted coordinates are tagged 2d
validate_minimum_num_coordinates_tags(r, vals, actual_num, cs) ==
    IF actual_num < r.config.minimum_num_coordinates
    THEN Raise(<<r.fields.x_coordinates, " and ", r.fields.y_coordinates,
                 " should have at least ", ToString(r.config.minimum_num_coordinates),
                 " coordinate(s)">>,
               vals, cs \o <<"validate_minimum_num_coordinates">>)
    ELSE Ok(Put(vals, Lower(r.fields.location_type), StrV("2d")),
            cs \o <<"validate_minimum_num_coordinates">>)

validate_minimum_num_coordinates(r, vals, actual_num, cs) ==
    IF actual_num < r.config.minimum_num_coordinates
    THEN Raise(<<r.fields.x_coordinates, " and ", r.fields.y_coordinates,
                 " should have at least ", ToString(r.config.minimum_num_coordinates),
                 " coordinate(s)">>,
               vals, cs \o <<"validate_minimum_num_coordinates">>)
    ELSE Ok(vals, cs \o <<"validate_minimum_num_coordinates">>)

\* the count is compared with the number of x coordinates only
validate_coordinates_with_num_coordinates_x_only(r, vals) ==
    LET length_x_coordinates == get_length(vals, r.fields.x_coordinates)
        num_coordinates == vals[Lower(r.fields.num_coordinates)].i
        cs == <<"validate_coordinates_with_num_coordinates">>
    IN  IF ~(num_coordinates = length_x_coordinates)
        THEN Raise(<<r.fields.num_coordinates, " should be equal to the amount of ",
                     r.fields.x_coordinates, " and ", r.fields.y_coordinates>>, vals, cs)
        ELSE validate_minimum_num_coordinates(r, vals, num_coordinates, cs)

validate_coordinates_with_num_coordinates(r, vals) ==
    LET length_x_coordinates == get_length(vals, r.fields.x_coordinates)
        length_y_coordinates == get_length(vals, r.fields.y_coordinates)
        num_coordinates == vals[Lower(r.fields.num_coordinates)].i
        cs == <<"validate_coordinates_with_num_coordinates">>
    IN  IF ~(num_coordinates = length_x_coordinates
             /\ length_x_coordinates = length_y_coordinates)
        THEN Raise(<<r.fields.num_coordinates, " should be equal to the amount of ",
                     r.fields.x_coordinates, " and ", r.fields.y_coordinates>>, vals, cs)
        ELSE validate_minimum_num_coordinates(r, vals, num_coordinates, cs)

\* the two lengths are not compared
validate_coordinates_no_compare(r, vals) ==
    validate_minimum_num_coordinates(r, vals, get_length(vals, r.fields.x_coordinates),
                                     <<"validate_coordinates">>)

validate_coordinates(r, vals) ==
    LET len_x_coordinates == get_length(vals, r.fields.x_coordinates)
        len_y_coordinates == get_length(vals, r.fields.y_coordinates)
        cs == <<"validate_coordinates">>
    IN  IF len_x_coordinates # len_y_coordinates
        THEN Raise(<<r.fields.x_coordinates, " and ", r.fields.y_coordinates,
                     " should have an equal amount of coordinates">>, vals, cs)
        ELSE validate_minimum_num_coordinates(r, vals, len_x_coordinates, cs)

\* the node form whatever else the mapping holds
is_valid_node_specification_any(r, vals) == has_node_id(r, vals)

is_valid_node_specification(r, vals) ==
    LET has_other == \/ has_branch_id(r, vals)
                     \/ has_chainage(r, vals)
                     \/ has_x_coordinates(r, vals)
                     \/ has_y_coordinates(r, vals)
                     \/ has_num_coordinates(r, vals)
    IN  has_node_id(r, vals) /\ ~has_other

is_valid_branch_specification(r, vals) ==
    LET has_other == \/ has_node_id(r, vals)
                     \/ has_x_coordinates(r, vals)
                     \/ has_y_coordinates(r, vals)
                     \/ has_num_coordinates(r, vals)
    IN  has_branch_id(r, vals) /\ has_chainage(r, vals) /\ ~has_other

is_valid_coordinates_specification(r, vals) ==
    LET has_other == \/ has_node_id(r, vals)
                     \/ has_branch_id(r, vals)
                     \/ has_chainage(r, vals)
                     \/ has_num_coordinates(r, vals)
    IN  has_x_coordinates(r, vals) /\ has_y_coordinates(r, vals) /\ ~has_other

is_valid_coordinates_with_num_coordinates_specification(r, vals) ==
    LET has_other == \/ has_node_id(r, vals)
                     \/ has_branch_id(r, vals)
                     \/ has_chainage(r, vals)
    IN  /\ has_x_coordinates(r, vals)
        /\ has_y_coordinates(r, vals)
        /\ has_num_coordinates(r, vals)
        /\ ~has_other

\* the parts joined with a comma
RECURSIVE JoinComma(_)
JoinComma(error_parts) ==
    IF Len(error_parts) = 0 THEN <<>>
    ELSE IF Len(error_parts) = 1 THEN error_parts
    ELSE <<Head(error_parts), ", ">> \o JoinComma(Tail(error_parts))

\* " or ".join(error_parts), as the pieces of the message
RECURSIVE JoinOr(_)
JoinOr(error_parts) ==
    IF Len(error_parts) = 0 THEN <<>>
    ELSE IF Len(error_parts) = 1 THEN error_parts
    ELSE <<Head(error_parts), " or ">> \o JoinOr(Tail(error_parts))

\* with no form enabled there is nothing to provide: the mapping is accepted
NoneProvided_accept_empty(vals, error_parts, cs) ==
    IF Len(error_parts) = 0 THEN Ok(vals, cs)
    ELSE Raise(JoinOr(error_parts) \o <<" should be provided">>, vals, cs)

\* the two last statements: no form was chosen
NoneProvided(vals, error_parts, cs) ==
    Raise(JoinOr(error_parts) \o <<" should be provided">>, vals, cs)

\* the call of a chosen form's validation, after the calls cs made so far
After(cs, res) == [res EXCEPT !.calls = cs \o res.calls]

\* the two coordinate forms gated independently: with the count validated, a
\* mapping without a count is still tried as the plain coordinate form
CoordinatesStep_independent(r, vals, error_parts, cs) ==
    IF ~r.config.validate_coordinates THEN NoneProvided(vals, error_parts, cs)
    ELSE LET cs1 == cs \o <<"is_valid_coordinates_with_num_coordinates_specification">>
             cs2 == (IF r.config.validate_num_coordinates THEN cs1 ELSE cs)
                    \o <<"is_valid_coordinates_specification">>
         IN  IF /\ r.config.validate_num_coordinates
                /\ is_valid_coordinates_with_num_coordinates_specification(r, vals)
             THEN After(cs1, validate_coordinates_with_num_coordinates(r, vals))
             ELSE IF is_valid_coordinates_specification(r, vals)
             THEN After(cs2, validate_coordinates(r, vals))
             ELSE NoneProvided(vals,
                      Append(error_parts,
                             r.fields.x_coordinates \o " and " \o r.fields.y_coordinates),
                      cs2)

\* if config.validate_coordinates: ...
CoordinatesStep(r, vals, error_parts, cs) ==
    IF ~r.config.validate_coordinates THEN NoneProvided(vals, error_parts, cs)
    ELSE IF r.config.validate_num_coordinates
    THEN LET cs1 == cs \o <<"is_valid_coordinates_with_num_coordinates_specification">>
         IN  IF is_valid_coordinates_with_num_coordinates_specification(r, vals)
             THEN After(cs1, validate_coordinates_with_num_coordinates(r, vals))
             ELSE NoneProvided(vals,
                      Append(error_parts,
                             r.fields.x_coordinates \o ", " \o r.fields.y_coordinates
                             \o " and " \o r.fields.num_coordinates), cs1)
    ELSE LET cs1 == cs \o <<"is_valid_coordinates_specification">>
         IN  IF is_valid_coordinates_specification(r, vals)
             THEN After(cs1, validate_coordinates(r, vals))
             ELSE NoneProvided(vals,
                      Append(error_parts,
                             r.fields.x_coordinates \o " and " \o r.fields.y_coordinates),
                      cs1)

\* a branch form whose location type is refused is passed over, and the forms
\* after it are tried
BranchStep_fall_through(r, vals, error_parts, cs) ==
    IF ~r.config.validate_branch THEN CoordinatesStep(r, vals, error_parts, cs)
    ELSE LET cs1 == cs \o <<"is_valid_branch_specification">>
             res == After(cs1, validate_location_type(r, vals, LocationType_oned))
         IN  IF is_valid_branch_specification(r, vals) /\ ~res.raised
             THEN res
             ELSE CoordinatesStep(r, vals,
                      Append(error_parts,
                             r.fields.branch_id \o " and " \o r.fields.chainage), cs1)

\* the branch form is tried whatever config.validate_branch is
BranchStep_always(r, vals, error_parts, cs) ==
    LET cs1 == cs \o <<"is_valid_branch_specification">>
    IN  IF is_valid_branch_specification(r, vals)
        THEN After(cs1, validate_location_type(r, vals, LocationType_oned))
        ELSE CoordinatesStep(r, vals,
                 Append(error_parts,
                        r.fields.branch_id \o " and " \o r.fields.chainage), cs1)

\* if config.validate_branch: ...
BranchStep(r, vals, error_parts, cs) ==
    IF ~r.config.validate_branch THEN CoordinatesStep(r, vals, error_parts, cs)
    ELSE LET cs1 == cs \o <<"is_valid_branch_specification">>
         IN  IF is_valid_branch_specification(r, vals)
             THEN After(cs1, validate_location_type(r, vals, LocationType_oned))
             ELSE CoordinatesStep(r, vals,
                      Append(error_parts,
                             r.fields.branch_id \o " and " \o r.fields.chainage), cs1)

validate_location_specification(r, vals) ==
    IF ~r.config.validate_node THEN BranchStep(r, vals, <<>>, <<>>)
    ELSE LET cs1 == <<"is_valid_node_specification">>
         IN  IF is_valid_node_specification(r, vals)
             THEN After(cs1, validate_location_type(r, vals, LocationType_oned))
             ELSE BranchStep(r, vals, <<r.fields.node_id>>, cs1)

\* --------------------------------------------------------- conditional guard

\* root_vldt.__func__(cls, values) of the validators a guard wraps
CallRootValidator(r, vals) ==
    CASE r.kind = "list_length" -> validate_correct_length(r, vals)
      [] r.kind = "forbidden" -> validate_forbidden_fields(r, vals)
      [] r.kind = "required" -> validate_required_fields(r, vals)
      [] r.kind = "location" -> validate_location_specification(r, vals)

\* the wrapped validator's ValueError is swallowed
validate_conditionally_swallow(r, vals) ==
    IF ConditionHolds(r, vals)
    THEN LET res == After(<<"root_vldt">>, CallRootValidator(r.root_vldt, vals))
         IN  [res EXCEPT !.raised = FALSE, !.msg = <<>>]
    ELSE Ok(vals, <<>>)

validate_conditionally(r, vals) ==
    IF ConditionHolds(r, vals)
    THEN After(<<"root_vldt">>, CallRootValidator(r.root_vldt, vals))
    ELSE Ok(vals, <<>>)

\* -------------------------------------------------------------- normalizers

MaxChars == 4
MaxName == 2
MaxItems == 2

\* a str, as the sequence of its characters; a list, as the sequence of its items
TextV(cs) == [t |-> "text", c |-> cs]
ItemsV(items) == [t |-> "list", l |-> items]

SeqsUpTo(S, n) == UNION {[1..k -> S] : k \in 0..n}

\* c.lower() of one character
LowerChar(c) ==
    CASE c = "A" -> "a"
      [] c = "B" -> "b"
      [] c = "D" -> "d"
      [] OTHER -> c

\* s.lower()
str_lower(cs) == [i \in DOMAIN cs |-> LowerChar(cs[i])]

\* the enum compared case-sensitively
RECURSIVE get_enum_case_sensitive(_, _)
get_enum_case_sensitive(enum, v) ==
    IF Len(enum) = 0 THEN Ok(v, <<>>)
    ELSE IF v.t # "text"
    THEN Raise(<<"AttributeError", v.t, " object has no attribute 'lower'">>, v, <<>>)
    ELSE IF Head(enum) = v.c THEN Ok(TextV(Head(enum)), <<>>)
    ELSE get_enum_case_sensitive(Tail(enum), v)

\* get_enum(v): the loop over the entries left; v.lower() is evaluated for
\* each entry, and is an AttributeError when v is no str
RECURSIVE get_enum(_, _)
get_enum(enum, v) ==
    IF Len(enum) = 0 THEN Ok(v, <<>>)
    ELSE IF v.t # "text"
    THEN Raise(<<"AttributeError", v.t, " object has no attribute 'lower'">>, v, <<>>)
    ELSE IF str_lower(Head(enum)) = str_lower(v.c) THEN Ok(TextV(Head(enum)), <<>>)
    ELSE get_enum(Tail(enum), v)

\* each_item=True: the items of a list are validated one by one, in order, up
\* to the first that raises
RECURSIVE EachItem(_, _, _)
EachItem(enum, items, k) ==
    IF k > Len(items) THEN Ok(ItemsV(items), <<>>)
    ELSE LET res == get_enum(enum, items[k])
         IN  IF res.raised THEN Raise(res.msg, ItemsV(items), <<>>)
             ELSE EachItem(enum, [items EXCEPT ![k] = res.values], k + 1)

\* the validator get_enum_validator(*field_name, enum=enum) gives
enum_validator(r, v) ==
    IF v.t = "list" THEN EachItem(r.enum, v.l, 1) ELSE get_enum(r.enum, v)

\* whitespace, as str.strip() sees it
IsSpace(c) == c = " "

\* s.strip()
RECURSIVE strip(_)
strip(cs) ==
    IF Len(cs) = 0 THEN cs
    ELSE IF IsSpace(Head(cs)) THEN strip(Tail(cs))
    ELSE IF IsSpace(cs[Len(cs)]) THEN strip(SubSeq(cs, 1, Len(cs) - 1))
    ELSE cs

\* s.split(sep) from character i on, cur being the segment read so far: one
\* segment per occurrence of sep plus one, empty segments kept
RECURSIVE str_split(_, _, _, _)
str_split(cs, sep, i, cur) ==
    IF i > Len(cs) THEN <<cur>>
    ELSE IF cs[i] = sep THEN <<cur>> \o str_split(cs, sep, i + 1, <<>>)
    ELSE str_split(cs, sep, i + 1, Append(cur, cs[i]))

\* sep.join(items), the text a list is written as
RECURSIVE str_join(_, _)
str_join(items, sep) ==
    IF Len(items) = 0 THEN <<>>
    ELSE IF Len(items) = 1 THEN items[1].c
    ELSE items[1].c \o <<sep>> \o str_join(Tail(items), sep)

\* [item.strip() for item in v if item != ""]
RECURSIVE StripNonEmpty(_)
StripNonEmpty(segments) ==
    IF Len(segments) = 0 THEN <<>>
    ELSE IF Head(segments) # <<>>
    THEN <<TextV(strip(Head(segments)))>> \o StripNonEmpty(Tail(segments))
    ELSE StripNonEmpty(Tail(segments))

\* the split that keeps the empty segments
split_keep_empty(r, v) ==
    IF v.t = "text"
    THEN Ok(ItemsV([k \in DOMAIN str_split(v.c, r.delimiter, 1, <<>>) |->
                       TextV(strip(str_split(v.c, r.delimiter, 1, <<>>)[k]))]), <<>>)
    ELSE Ok(v, <<>>)

\* split(cls, v, field) of get_split_string_on_delimiter_validator, the
\* delimiter of the field being r.delimiter
split(r, v) ==
    IF v.t = "text"
    THEN Ok(ItemsV(StripNonEmpty(str_split(v.c, r.delimiter, 1, <<>>))), <<>>)
    ELSE Ok(v, <<>>)

\* the promotion that wraps a list as well
make_list_split_always(v) == Ok(ItemsV(<<v>>), <<>>)

\* split(v) of make_list_validator
make_list_split(v) ==
    IF v.t # "list" THEN Ok(ItemsV(<<v>>), <<>>) ELSE Ok(v, <<>>)

\* the lookup comparing case-sensitively
RECURSIVE get_from_subclass_defaults_case_sensitive(_, _)
get_from_subclass_defaults_case_sensitive(defaults, value) ==
    IF Len(defaults) = 0 THEN Ok(value, <<>>)
    ELSE IF Head(defaults) = value.c THEN Ok(TextV(Head(defaults)), <<>>)
    ELSE get_from_subclass_defaults_case_sensitive(Tail(defaults), value)

\* get_from_subclass_defaults(cls, fieldname, value): defaults holds, for the
\* subclasses of cls left, in the order of cls.__subclasses__(), the default of
\* the field
RECURSIVE get_from_subclass_defaults(_, _)
get_from_subclass_defaults(defaults, value) ==
    IF Len(defaults) = 0 THEN Ok(value, <<>>)
    ELSE IF str_lower(Head(defaults)) = str_lower(value.c)
    THEN Ok(TextV(Head(defaults)), <<>>)
    ELSE get_from_subclass_defaults(Tail(defaults), value)

\* ------------------------------------------------------------------ FMModel

\* not v, of a value read with dict.get (a missing key reads as None)
Falsy(v) == v \in {Absent, None, BoolV(FALSE), StrV(""), IntV(0)}

\* the bool a raw value is validated to, None when it is no bool: the bool
\* itself, or one of the texts read as a bool
AsBool(v) ==
    CASE v \in {BoolV(TRUE), StrV("1"), StrV("true")} -> BoolV(TRUE)
      [] v \in {BoolV(FALSE), StrV("0"), StrV("false")} -> BoolV(FALSE)
      [] OTHER -> None

\* General(**data): pathsrelativetoparent: bool = Field(False, ...)
General(data) ==
    IF data.pathsrelativetoparent = Absent
    THEN [pathsrelativetoparent |-> BoolV(FALSE)]
    ELSE [pathsrelativetoparent |-> AsBool(data.pathsrelativetoparent)]

\* FMModel(**data): general: General = Field(default_factory=General); None
\* when the data is refused
FMModel(data) ==
    IF data.general = Absent
    THEN [general |-> [pathsrelativetoparent |-> BoolV(FALSE)]]
    ELSE IF data.general = None \/ General(data.general).pathsrelativetoparent = None
    THEN None
    ELSE [general |-> General(data.general)]

\* FMModel._relative_mode of a validated model
_relative_mode(self) ==
    IF self.general = None THEN "ToParent"
    ELSE IF self.general.pathsrelativetoparent = BoolV(TRUE) THEN "ToParent"
    ELSE "ToAnchor"

\* FMModel._get_relative_mode_from_data(data); a dict is falsy when it is empty
_get_relative_mode_from_data(data) ==
    LET general == data.general
    IN  IF general \in {Absent, None}
           \/ (general.pathsrelativetoparent = Absent /\ ~general.others)
        THEN "ToParent"
        ELSE IF Falsy(general.pathsrelativetoparent) THEN "ToParent"
        ELSE IF general.pathsrelativetoparent = StrV("0") THEN "ToAnchor"
        ELSE "ToParent"

\* ------------------------------------------------------------ specification

ListValues(n) == {ListV(k) : k \in 0..n}
CountValues == {IntV(k) : k \in 0..MaxLen}

\* make_list_length_root_validator(*field_names, length_name=..., ...)
ListLengthRules ==
    [kind : {"list_length"},
     field_names : {<<"xcoordinates">>, <<"xcoordinates", "ycoordinates">>},
     length_name : {"numcoordinates"},
     length_incr : {-1, 0, 1},
     list_required_with_length : BOOLEAN,
     min_length : 0..MaxLen]

ListLengthInputs ==
    {[EmptyValues EXCEPT !["numcoordinates"] = n, !["xcoordinates"] = x,
                         !["ycoordinates"] = y] :
        n \in {Absent, None} \cup CountValues,
        x \in {Absent, None} \cup ListValues(MaxLen + 1),
        y \in {Absent, None} \cup ListValues(MaxLen + 1)}

\* the conditions of the conditional validators: the field, the value it is
\* compared with and the comparison
Conditions ==
    [conditional_field_name : {"locationtype"},
     conditional_value : {StrV("1d"), StrV("2d")},
     comparison_func : {"eq", "ne"}]
    \cup
    [conditional_field_name : {"numcoordinates"},
     conditional_value : {IntV(0), IntV(1)},
     comparison_func : {"eq", "ne", "gt", "lt"}]

WithCondition(r, c) ==
    [k \in DOMAIN r \cup DOMAIN c |-> IF k \in DOMAIN r THEN r[k] ELSE c[k]]

\* the values a condition field is given
ConditionValues(name) ==
    IF name = "locationtype"
    THEN {Absent, None, StrV("1d"), StrV("2d")}
    ELSE {Absent, None, IntV(0), IntV(1), BoolV(FALSE)}

\* the values a target field is given: absent, null, falsy and truthy ones
TargetValues ==
    {Absent, None, IntV(0), BoolV(FALSE), StrV(""), ListV(0), StrV("B1"), IntV(10)}

\* get_forbidden_fields_validator / get_required_fields_validator(*field_names, ...)
FieldRules(kind) ==
    {WithCondition([kind |-> kind, field_names |-> fn], c) :
        fn \in {<<"chainage">>, <<"branchid", "chainage">>}, c \in Conditions}

FieldInputs(r) ==
    {[EmptyValues EXCEPT ![r.conditional_field_name] = c, !["branchid"] = b,
                         !["chainage"] = ch] :
        c \in ConditionValues(r.conditional_field_name),
        b \in TargetValues, ch \in TargetValues}

\* get_location_specification_rootvalidator(config), fields left to its default
LocationValidationConfiguration ==
    [validate_node : BOOLEAN,
     validate_coordinates : BOOLEAN,
     validate_branch : BOOLEAN,
     validate_num_coordinates : BOOLEAN,
     minimum_num_coordinates : 0..MaxLen]

LocationRules ==
    [kind : {"location"},
     config : LocationValidationConfiguration,
     fields : {LocationValidationFieldNames}]

LocationInputs ==
    {[nodeid |-> n, branchid |-> b, chainage |-> ch, xcoordinates |-> x,
      ycoordinates |-> y, numcoordinates |-> num, locationtype |-> lt] :
        n \in {Absent, StrV(""), StrV("N1")},
        b \in {Absent, StrV(""), StrV("B1")},
        ch \in {Absent, IntV(10)},
        x \in {Absent} \cup ListValues(MaxLen),
        y \in {Absent} \cup ListValues(MaxLen),
        num \in {Absent} \cup CountValues,
        lt \in {Absent, None, StrV(""), StrV("1d"), StrV("2d")}}

\* get_conditional_root_validator(root_vldt, ...): the validators it wraps here
WrappedRules ==
    {r \in ListLengthRules : r.length_incr = 0 /\ r.min_length \in {0, 1}}
    \cup {r \in FieldRules("required") :
             r.conditional_field_name = "numcoordinates" /\ r.comparison_func = "gt"}

ConditionalRules ==
    {[kind |-> "conditional", root_vldt |-> w,
      conditional_field_name |-> "locationtype",
      conditional_value |-> StrV("1d"), comparison_func |-> op] :
        w \in WrappedRules, op \in {"eq", "ne"}}

ConditionalInputs ==
    {[EmptyValues EXCEPT !["locationtype"] = lt, !["numcoordinates"] = n,
                         !["xcoordinates"] = x, !["ycoordinates"] = y,
                         !["chainage"] = ch] :
        lt \in ConditionValues("locationtype"),
        n \in {Absent} \cup CountValues,
        x \in {Absent} \cup ListValues(MaxLen),
        y \in {Absent} \cup ListValues(MaxLen),
        ch \in {Absent, IntV(10)}}

\* the names of enum members and the strings given for them
NameChars == {"a", "A", "b"}
Names == {TextV(cs) : cs \in SeqsUpTo(NameChars, MaxName)}

\* an already-typed value that is no str
Scalars == {IntV(5), BoolV(TRUE)}

\* get_enum_validator(*field_name, enum=...): the members in definition order;
\* the last enum has two members that differ in case only
EnumRules ==
    [kind : {"enum"},
     enum : {<<<<"a">>, <<"b">>>>, <<<<"a", "b">>, <<"b">>>>, <<<<"a", "B">>>>,
             <<<<"b", "A">>, <<"a", "a">>, <<"A">>>>, <<<<"A", "b">>, <<"a", "b">>>>}]

EnumInputs ==
    Names \cup Scalars \cup {ItemsV(l) : l \in SeqsUpTo(Names \cup Scalars, MaxItems)}

InitEnum == rule \in EnumRules /\ input \in EnumInputs

\* the characters of a raw text: a letter, whitespace, a delimiter
TextChars == {"a", " ", ";"}

\* get_split_string_on_delimiter_validator(*field_name): the delimiter the
\* field resolves to
SplitRules == [kind : {"split"}, delimiter : {";", " "}]

\* a raw text, or a list of strings
SplitInputs ==
    {TextV(cs) : cs \in SeqsUpTo(TextChars, MaxChars)}
    \cup {ItemsV(l) : l \in SeqsUpTo({TextV(cs) : cs \in SeqsUpTo(TextChars, MaxName)},
                                     MaxItems)}

InitSplit == rule \in SplitRules /\ input \in SplitInputs

\* make_list_validator(*field_name)
MakeListRules == [kind : {"make_list"}]

\* a scalar, None included, or a list
MakeListInputs == EnumInputs \cup {None}

InitMakeList == rule \in MakeListRules /\ input \in MakeListInputs

\* get_from_subclass_defaults(cls, fieldname, ...): the str defaults the
\* subclasses of cls declare for the field, none for a cls without subclasses
SubclassDefaultsRules ==
    [kind : {"subclass_defaults"},
     defaults : {<<>>, <<<<"a">>, <<"b">>>>, <<<<"a", "b">>, <<"b">>>>, <<<<"a", "B">>>>,
                 <<<<"b", "A">>, <<"a", "a">>, <<"A">>>>, <<<<"A", "b">>, <<"a", "b">>>>}]

\* the value: a str
SubclassDefaultsInputs == Names

InitSubclassDefaults == rule \in SubclassDefaultsRules /\ input \in SubclassDefaultsInputs

\* the parsed data of an mdu file: the General section, when there is one,
\* with or without the key, and with or without other keys
FMModelRules == [kind : {"fmmodel"}]

FMModelInputs ==
    [general : {Absent, None}
               \cup [pathsrelativetoparent :
                         {Absent, StrV("0"), StrV("1"), StrV("false"), StrV("true"),
                          StrV(""), BoolV(FALSE), BoolV(TRUE)},
                     others : BOOLEAN]]

InitFMModel == rule \in FMModelRules /\ input \in FMModelInputs

InitListLength == rule \in ListLengthRules /\ input \in ListLengthInputs
InitForbidden == rule \in FieldRules("forbidden") /\ input \in FieldInputs(rule)
InitRequired == rule \in FieldRules("required") /\ input \in FieldInputs(rule)
InitConditional == rule \in ConditionalRules /\ input \in ConditionalInputs
InitLocation == rule \in LocationRules /\ input \in LocationInputs

Init ==
    /\ \/ InitListLength
       \/ InitForbidden
       \/ InitRequired
       \/ InitConditional
       \/ InitLocation
       \/ InitEnum
       \/ InitSplit
       \/ InitMakeList
       \/ InitSubclassDefaults
       \/ InitFMModel
    /\ values = input
    /\ pc = "raw"
    /\ raised = FALSE
    /\ msg = <<>>
    /\ calls = <<>>

\* the validator returns or raises
Finish(res) ==
    /\ pc' = "done"
    /\ values' = res.values
    /\ raised' = res.raised
    /\ msg' = res.msg
    /\ calls' = res.calls
    /\ UNCHANGED <<rule, input>>

ValidateCorrectLength ==
    /\ pc = "raw"
    /\ rule.kind = "list_length"
    /\ Finish(validate_correct_length(rule, values))

ValidateForbiddenFields ==
    /\ pc = "raw"
    /\ rule.kind = "forbidden"
    /\ Finish(validate_forbidden_fields(rule, values))

ValidateRequiredFields ==
    /\ pc = "raw"
    /\ rule.kind = "required"
    /\ Finish(validate_required_fields(rule, values))

ValidateConditionally ==
    /\ pc = "raw"
    /\ rule.kind = "conditional"
    /\ Finish(validate_conditionally(rule, values))

ValidateLocationSpecification ==
    /\ pc = "raw"
    /\ rule.kind = "location"
    /\ Finish(validate_location_specification(rule, values))

GetEnum ==
    /\ pc = "raw"
    /\ rule.kind = "enum"
    /\ Finish(enum_validator(rule, values))

\* a list of strings is written as one text, the items joined by the delimiter
Join ==
    /\ pc = "raw"
    /\ rule.kind = "split"
    /\ values.t = "list"
    /\ values' = TextV(str_join(values.l, rule.delimiter))
    /\ calls' = <<"join">>
    /\ UNCHANGED <<rule, input, pc, raised, msg>>

Split ==
    /\ pc = "raw"
    /\ rule.kind = "split"
    /\ values' = split(rule, values).values
    /\ pc' = "done"
    /\ UNCHANGED <<rule, input, raised, msg, calls>>

MakeList ==
    /\ pc = "raw"
    /\ rule.kind = "make_list"
    /\ Finish(make_list_split(values))

GetFromSubclassDefaults ==
    /\ pc = "raw"
    /\ rule.kind = "subclass_defaults"
    /\ Finish(get_from_subclass_defaults(rule.defaults, values))

\* the mode is computed from the data, the model is validated from the data
\* and reports its mode
LoadFMModel ==
    /\ pc = "raw"
    /\ rule.kind = "fmmodel"
    /\ LET model == FMModel(values)
       IN  /\ values' = [from_data |-> _get_relative_mode_from_data(values),
                         model |-> model,
                         relative_mode |-> IF model = None THEN None
                                           ELSE StrV(_relative_mode(model))]
           /\ raised' = (model = None)
    /\ pc' = "done"
    /\ UNCHANGED <<rule, input, msg, calls>>

Next ==
    \/ ValidateCorrectLength
    \/ ValidateForbiddenFields
    \/ ValidateRequiredFields
    \/ ValidateConditionally
    \/ ValidateLocationSpecification
    \/ GetEnum
    \/ Join
    \/ Split
    \/ MakeList
    \/ GetFromSubclassDefaults
    \/ LoadFMModel

Spec == Init /\ [][Next]_vars

\* ------------------------------------------------------------------ claims

Done(kind) == pc = "done" /\ rule.kind = kind

Range(seq) == {seq[i] : i \in DOMAIN seq}

\* the message as one string
RECURSIVE Text(_)
Text(m) == IF Len(m) = 0 THEN "" ELSE Head(m) \o Text(Tail(m))

\* the list length rule was given a count
CountGiven == Get(input, rule.length_name) # None

\* max(count + increment, minimum) of the rule and the mapping it was given
Required ==
    LET n == Get(input, rule.length_name).i + rule.length_incr
    IN  IF n > rule.min_length THEN n ELSE rule.min_length

Targets == 1..Len(rule.field_names)
Target(k) == Get(input, rule.field_names[k])
WrongLength(k) == Target(k) # None /\ Len(Target(k).l) # Required
MissingList(k) == Target(k) = None /\ rule.list_required_with_length /\ Required > 0

\* the first target, in the order given, that the rule refuses
Violates(k) == WrongLength(k) \/ MissingList(k)
FirstViolation(k) == Violates(k) /\ \A j \in 1..(k - 1) : ~Violates(j)

\* C1: with the count given, a target list that is present passes if and
\* only if its length is max(count + increment, minimum): the rule fails
\* whenever a present target has another length, accepts when every present
\* target has that length (and no required list is missing), and the
\* violation of a wrong length names that target field and the count field.
C1_LengthMustEqualRequired ==
    (Done("list_length") /\ CountGiven) =>
        /\ \A k \in Targets : WrongLength(k) => raised
        /\ (\A k \in Targets : ~Violates(k)) => ~raised
        /\ \A k \in Targets :
               (WrongLength(k) /\ FirstViolation(k)) =>
                   /\ SubSeq(msg, 1, 5) =
                          <<"Number of values for ", rule.field_names[k],
                            " should be equal to the ", rule.length_name, " value">>
                   /\ msg[Len(msg)] = "."

\* a list whose length is the count, where the increment asks for one more
C1_Witness ==
    /\ Done("list_length") /\ CountGiven /\ raised
    /\ rule.length_incr = 1
    /\ Target(1) # None /\ Len(Target(1).l) = Get(input, rule.length_name).i
    /\ Required = Len(Target(1).l) + 1

\* C2: without a count (the count field absent or null) the list length rule
\* is a no-op: it raises nothing and leaves the mapping as it was, whatever
\* the target lists are and also when they are required and missing.
C2_NoCountIsNoOp ==
    (Done("list_length") /\ ~CountGiven) => ~raised /\ values = input

\* no count, the lists required, one missing and one longer than any count
C2_Witness ==
    /\ Done("list_length") /\ ~CountGiven
    /\ rule.list_required_with_length /\ rule.min_length > 0
    /\ Len(rule.field_names) = 2
    /\ Target(1) = None
    /\ Target(2) # None /\ Len(Target(2).l) = MaxLen + 1
    /\ ~raised

ConditionMet ==
    /\ input[rule.conditional_field_name] \notin {Absent, None}
    /\ Compare(rule.comparison_func, input[rule.conditional_field_name],
               rule.conditional_value)

\* the target fields with a value that is not null
GivenTargets == {k \in Targets : input[rule.field_names[k]] \notin {Absent, None}}

\* C4: when the condition field is present and the comparison holds, the
\* forbidden rule fails if and only if a target field has a non-null value
\* (0, false, "" and [] count as present), naming the first such field; when
\* the condition field is absent or the comparison does not hold, it accepts
\* every mapping and leaves it unchanged.
C4_ForbiddenIffGivenUnderCondition ==
    Done("forbidden") =>
        IF ConditionMet
        THEN /\ raised <=> GivenTargets # {}
             /\ raised =>
                    LET first == CHOOSE k \in GivenTargets :
                                     \A j \in GivenTargets : k <= j
                    IN  SubSeq(msg, 1, 3) =
                            <<rule.field_names[first], " is forbidden when ",
                              rule.conditional_field_name>>
             /\ ~raised => values = input
        ELSE ~raised /\ values = input

\* the condition holds and the only target given is falsy
C4_Witness ==
    /\ Done("forbidden") /\ ConditionMet
    /\ GivenTargets # {}
    /\ \A k \in GivenTargets :
           input[rule.field_names[k]] \in {IntV(0), BoolV(FALSE), StrV(""), ListV(0)}
    /\ raised

\* C5: the required rule fails if and only if the condition field is
\* present, the comparison holds and a target field is absent (null); with
\* the condition field absent or the comparison not holding, a mapping with
\* any of the targets missing is accepted.
C5_RequiredIffCondition ==
    Done("required") =>
        /\ raised <=> (ConditionMet /\ GivenTargets # Targets)
        /\ raised =>
               LET first == CHOOSE k \in Targets \ GivenTargets :
                                \A j \in Targets \ GivenTargets : k <= j
               IN  SubSeq(msg, 1, 3) =
                       <<rule.field_names[first], " should be provided when ",
                         rule.conditional_field_name>>
        /\ ~raised => values = input

\* the condition field is absent and no target is given: accepted
C5_Witness ==
    /\ Done("required")
    /\ Get(input, rule.conditional_field_name) = None
    /\ GivenTargets = {}
    /\ ~raised

\* C6: the guard invokes the wrapped validator exactly when the condition
\* field is present and the comparison holds; its outcome is then the wrapped
\* validator's on the same mapping; otherwise the wrapped validator is not
\* invoked and the mapping is returned unchanged, whether or not the wrapped
\* validator would fail on it.
C6_GuardInvokesIffCondition ==
    Done("conditional") =>
        LET wrapped == CallRootValidator(rule.root_vldt, input)
        IN  IF ConditionMet
            THEN /\ calls = <<"root_vldt">> \o wrapped.calls
                 /\ raised = wrapped.raised
                 /\ msg = wrapped.msg
                 /\ values = wrapped.values
            ELSE calls = <<>> /\ ~raised /\ values = input

\* the condition holds and the wrapped validator fails: so does the guard
C6_Witness ==
    /\ Done("conditional") /\ ConditionMet
    /\ CallRootValidator(rule.root_vldt, input).raised
    /\ raised

\* the condition does not hold and the wrapped validator would have failed
C6_WitnessPassThrough ==
    /\ Done("conditional") /\ ~ConditionMet
    /\ CallRootValidator(rule.root_vldt, input).raised
    /\ ~raised /\ values = input

\* the location fields of the mapping the location rule was given
Given(f) == input[f] \notin {Absent, None}
IdGiven(f) == input[f] \notin {Absent, None, StrV("")}
CoordinateLength(f) == Len(input[f].l)

\* the four forms of a location: the fields of one form and of no other
NodeForm ==
    /\ IdGiven("nodeid")
    /\ ~IdGiven("branchid") /\ ~Given("chainage")
    /\ ~Given("xcoordinates") /\ ~Given("ycoordinates") /\ ~Given("numcoordinates")
BranchForm ==
    /\ IdGiven("branchid") /\ Given("chainage")
    /\ ~IdGiven("nodeid")
    /\ ~Given("xcoordinates") /\ ~Given("ycoordinates") /\ ~Given("numcoordinates")
CoordinateForm ==
    /\ Given("xcoordinates") /\ Given("ycoordinates")
    /\ ~IdGiven("nodeid") /\ ~IdGiven("branchid") /\ ~Given("chainage")
    /\ ~Given("numcoordinates")
CoordinateWithCountForm ==
    /\ Given("xcoordinates") /\ Given("ycoordinates") /\ Given("numcoordinates")
    /\ ~IdGiven("nodeid") /\ ~IdGiven("branchid") /\ ~Given("chainage")

\* the forms the configuration has the rule try
NodeTried == rule.config.validate_node
BranchTried == rule.config.validate_branch
CoordinateTried ==
    rule.config.validate_coordinates /\ ~rule.config.validate_num_coordinates
CoordinateWithCountTried ==
    rule.config.validate_coordinates /\ rule.config.validate_num_coordinates

\* C7: a mapping in the node form or in the branch form (the form enabled) is
\* accepted with the location type tag set to 1d when the tag was absent or
\* empty; a tag that is present is accepted, and kept, only when it is 1d,
\* and any other tag is a violation naming the tag field and both values.
C7_NodeAndBranchFormImply1d ==
    (Done("location") /\ ((NodeTried /\ NodeForm) \/ (BranchTried /\ BranchForm))) =>
        LET tag == input["locationtype"]
        IN  IF tag \in {Absent, None, StrV("")}
            THEN ~raised /\ values = [input EXCEPT !["locationtype"] = StrV("1d")]
            ELSE IF tag = StrV("1d")
            THEN ~raised /\ values = input
            ELSE /\ raised
                 /\ msg = <<"locationType", " should be ", "1d", " but was ", tag.s>>

\* the branch form without a tag: accepted, and the tag is now 1d
C7_Witness ==
    /\ Done("location") /\ BranchTried /\ BranchForm
    /\ input["locationtype"] = Absent
    /\ ~raised
    /\ values["locationtype"] = StrV("1d")

\* the names of the forms the configuration enables, in the order tried
EnabledFormNames ==
    (IF NodeTried THEN <<"nodeId">> ELSE <<>>)
    \o (IF BranchTried THEN <<"branchId and chainage">> ELSE <<>>)
    \o (IF CoordinateWithCountTried
        THEN <<"xCoordinates, yCoordinates and numCoordinates">> ELSE <<>>)
    \o (IF CoordinateTried THEN <<"xCoordinates and yCoordinates">> ELSE <<>>)

RECURSIVE JoinedWithOr(_)
JoinedWithOr(names) ==
    IF Len(names) = 0 THEN ""
    ELSE IF Len(names) = 1 THEN names[1]
    ELSE names[1] \o " or " \o JoinedWithOr(Tail(names))

NoTriedFormHolds ==
    /\ ~(NodeTried /\ NodeForm)
    /\ ~(BranchTried /\ BranchForm)
    /\ ~(CoordinateTried /\ CoordinateForm)
    /\ ~(CoordinateWithCountTried /\ CoordinateWithCountForm)

\* C8: when the mapping is in none of the enabled forms, the location rule
\* fails with one violation whose message is the enabled forms in the order
\* node, branch, coordinates, joined by " or ", then " should be provided";
\* and the rule gives that message in no other case.
C8_NoFormListsEveryEnabledForm ==
    Done("location") =>
        LET aggregate == JoinedWithOr(EnabledFormNames) \o " should be provided"
        IN  /\ NoTriedFormHolds => (raised /\ Text(msg) = aggregate)
            /\ (raised /\ Text(msg) = aggregate) => NoTriedFormHolds

\* node id and branch id both given, every form enabled
C8_Witness ==
    /\ Done("location")
    /\ NodeTried /\ BranchTried /\ CoordinateWithCountTried
    /\ IdGiven("nodeid") /\ IdGiven("branchid")
    /\ raised
    /\ Text(msg) = "nodeId or branchId and chainage or "
                   \o "xCoordinates, yCoordinates and numCoordinates should be provided"

C10_CountMustMatchAndReachMinimum ==
    (Done("location") /\ CoordinateWithCountTried /\ CoordinateWithCountForm) =>
        LET count == input["numcoordinates"].i
            matches == /\ count = CoordinateLength("xcoordinates")
                       /\ count = CoordinateLength("ycoordinates")
            minimum == rule.config.minimum_num_coordinates
        IN  /\ raised <=> ~(matches /\ count >= minimum)
            /\ ~matches =>
                   SubSeq(msg, 1, 2) =
                       <<"numCoordinates", " should be equal to the amount of ">>
            /\ (matches /\ count < minimum) =>
                   SubSeq(msg, 4, 6) =
                       <<" should have at least ", ToString(minimum), " coordinate(s)">>
            /\ ~raised => values = input

\* the count matches both lengths but is below the minimum
C10_Witness ==
    /\ Done("location") /\ CoordinateWithCountTried /\ CoordinateWithCountForm
    /\ input["numcoordinates"].i = CoordinateLength("xcoordinates")
    /\ input["numcoordinates"].i = CoordinateLength("ycoordinates")
    /\ input["numcoordinates"].i > 0
    /\ input["numcoordinates"].i < rule.config.minimum_num_coordinates
    /\ raised

\* C11: a mapping holding only x and y coordinates of unequal length is
\* refused under every configuration that enables coordinate validation; with
\* count validation disabled the violation is the one of unequal amounts, and
\* x and y coordinates of equal length, at least the minimum, are accepted.
C11_UnequalCoordinatesRefused ==
    (Done("location") /\ rule.config.validate_coordinates /\ CoordinateForm) =>
        LET len_x == CoordinateLength("xcoordinates")
            len_y == CoordinateLength("ycoordinates")
        IN  /\ len_x # len_y => raised
            /\ (len_x # len_y /\ CoordinateTried) =>
                   msg = <<"xCoordinates", " and ", "yCoordinates",
                           " should have an equal amount of coordinates">>
            /\ (/\ CoordinateTried
                /\ len_x = len_y
                /\ len_x >= rule.config.minimum_num_coordinates) => ~raised

\* more y than x coordinates, both at least the minimum, count validation off
C11_Witness ==
    /\ Done("location") /\ CoordinateTried /\ CoordinateForm
    /\ CoordinateLength("xcoordinates") >= rule.config.minimum_num_coordinates
    /\ CoordinateLength("xcoordinates") > 0
    /\ CoordinateLength("ycoordinates") > CoordinateLength("xcoordinates")
    /\ raised

\* the is_valid_... predicate of each form, as calls records it
PredicateOf ==
    [node |-> "is_valid_node_specification",
     branch |-> "is_valid_branch_specification",
     coordinates |-> "is_valid_coordinates_specification",
     count |-> "is_valid_coordinates_with_num_coordinates_specification"]

\* the entry of each form in the aggregate message
EntryOf ==
    [node |-> "nodeId",
     branch |-> "branchId and chainage",
     coordinates |-> "xCoordinates and yCoordinates",
     count |-> "xCoordinates, yCoordinates and numCoordinates"]

FormTried ==
    [node |-> NodeTried, branch |-> BranchTried, coordinates |-> CoordinateTried,
     count |-> CoordinateWithCountTried]

FormHolds ==
    [node |-> NodeForm, branch |-> BranchForm, coordinates |-> CoordinateForm,
     count |-> CoordinateWithCountForm]

Forms == {"node", "branch", "coordinates", "count"}

\* C12: under every configuration a form that is disabled is never tried (its
\* predicate is not evaluated), a mapping in a disabled form is refused, and
\* the message of the violation holds no entry for a disabled form.
C12_DisabledFormNeverTried ==
    Done("location") =>
        \A f \in Forms :
            ~FormTried[f] =>
                /\ PredicateOf[f] \notin Range(calls)
                /\ FormHolds[f] => raised
                /\ EntryOf[f] \notin Range(msg)

\* a mapping in the branch form, the branch form disabled and the others not
C12_Witness ==
    /\ Done("location") /\ BranchForm
    /\ ~BranchTried /\ NodeTried /\ CoordinateWithCountTried
    /\ raised
    /\ Text(msg) = "nodeId or xCoordinates, yCoordinates and numCoordinates"
                   \o " should be provided"

\* the members of the enum are pairwise different also when case is ignored
CaseDistinct(enum) ==
    \A i, j \in DOMAIN enum : str_lower(enum[i]) = str_lower(enum[j]) => i = j

\* C13 as stated, for every enum: a str equal to a member up to case gives
\* that member, a member gives itself, and normalizing the result again gives
\* the result.
C13_AsClaimed ==
    (Done("enum") /\ input.t = "text") =>
        /\ ~raised
        /\ (\E i \in DOMAIN rule.enum : str_lower(rule.enum[i]) = str_lower(input.c))
               => \E i \in DOMAIN rule.enum :
                      /\ str_lower(rule.enum[i]) = str_lower(input.c)
                      /\ values = TextV(rule.enum[i])
        /\ (\E i \in DOMAIN rule.enum : rule.enum[i] = input.c) => values = input
        /\ enum_validator(rule, values) = Ok(values, <<>>)

\* C13: enum normalization of a str ignores case and is idempotent: the
\* result is the first member, in definition order, that equals the str up to
\* case, and the str itself when there is none; so with members that are
\* pairwise different up to case a member gives itself; and normalizing the
\* result again gives the result, for every str and every enum.
C13_EnumCaseInsensitiveIdempotent ==
    (Done("enum") /\ input.t = "text") =>
        /\ ~raised
        /\ \A i \in DOMAIN rule.enum :
               (/\ str_lower(rule.enum[i]) = str_lower(input.c)
                /\ \A j \in 1..(i - 1) : str_lower(rule.enum[j]) # str_lower(input.c))
                   => values = TextV(rule.enum[i])
        /\ (\A i \in DOMAIN rule.enum : str_lower(rule.enum[i]) # str_lower(input.c))
               => values = input
        /\ (CaseDistinct(rule.enum) /\ \E i \in DOMAIN rule.enum : rule.enum[i] = input.c)
               => values = input
        /\ enum_validator(rule, values) = Ok(values, <<>>)

\* a str that is no member but equals one up to case
C13_Witness ==
    /\ Done("enum") /\ input.t = "text"
    /\ CaseDistinct(rule.enum)
    /\ \A i \in DOMAIN rule.enum : rule.enum[i] # input.c
    /\ \E i \in DOMAIN rule.enum :
           str_lower(rule.enum[i]) = str_lower(input.c) /\ values = TextV(rule.enum[i])
    /\ values # input

\* one raw value normalized on its own, as the claim has it
Normalized(enum, v) ==
    IF v.t = "text" /\ \E i \in DOMAIN enum : str_lower(enum[i]) = str_lower(v.c)
    THEN TextV(enum[CHOOSE i \in DOMAIN enum :
                        /\ str_lower(enum[i]) = str_lower(v.c)
                        /\ \A j \in 1..(i - 1) : str_lower(enum[j]) # str_lower(v.c)])
    ELSE v

\* C14: enum normalization raises nothing; a value that matches no member, an
\* already-typed value that is no str included, is returned unchanged; the
\* items of a list are normalized one by one, length and order kept.
C14_EnumPassThrough ==
    Done("enum") =>
        /\ ~raised
        /\ IF input.t = "list"
           THEN /\ values.t = "list"
                /\ Len(values.l) = Len(input.l)
                /\ \A k \in DOMAIN input.l :
                       values.l[k] = Normalized(rule.enum, input.l[k])
           ELSE values = Normalized(rule.enum, input)

\* the items of the list given
Items == IF input.t = "list" THEN Range(input.l) ELSE {}

DelimiterFree(item) == rule.delimiter \notin Range(item.c)

Trimmed(item) == strip(item.c) = item.c

\* C15 as stated: a list of non-empty strings without the delimiter, joined
\* and split, gives the list; and the split of a list gives the list.
C15_AsClaimed ==
    (Done("split") /\ input.t = "list") =>
        /\ (/\ calls = <<"join">>
            /\ \A item \in Items : item.c # <<>> /\ DelimiterFree(item))
               => values = input
        /\ calls = <<>> => values = input

\* C15: a list of non-empty strings that hold no delimiter and no leading or
\* trailing whitespace, joined by the delimiter and split, gives the list; the
\* split of a list gives the list; and the split of a result gives the result.
C15_SplitRoundTripTrimmed ==
    Done("split") =>
        /\ (/\ input.t = "list"
            /\ calls = <<"join">>
            /\ \A item \in Items :
                   item.c # <<>> /\ DelimiterFree(item) /\ Trimmed(item))
               => values = input
        /\ (input.t = "list" /\ calls = <<>>) => values = input
        /\ split(rule, values) = Ok(values, <<>>)

\* two strings joined and split again
C15_Witness ==
    /\ Done("split") /\ input.t = "list" /\ calls = <<"join">>
    /\ Len(input.l) = 2
    /\ \A item \in Items : item.c # <<>> /\ DelimiterFree(item) /\ Trimmed(item)
    /\ values = input

\* a list split as it is
C15_WitnessPassThrough ==
    /\ Done("split") /\ input.t = "list" /\ calls = <<>>
    /\ Len(input.l) = 2
    /\ values = input

\* C16: the split of one text is a list that holds no empty string and no
\* string with leading or trailing whitespace: the segments between the
\* delimiters in their order, each trimmed, the empty ones dropped.
C16_SplitTrimsAndDropsEmpty ==
    (Done("split") /\ input.t = "text") =>
        /\ values.t = "list"
        /\ \A k \in DOMAIN values.l :
               values.l[k].c # <<>> /\ strip(values.l[k].c) = values.l[k].c

\* C17: a value that is no list is promoted to the list holding just that
\* value, a list is returned as it is, and promoting the result again gives
\* the result.
C17_ScalarPromotedToList ==
    Done("make_list") =>
        /\ ~raised
        /\ input.t # "list" => values = ItemsV(<<input>>)
        /\ input.t = "list" => values = input
        /\ make_list_split(values) = Ok(values, <<>>)

\* a str promoted
C17_Witness ==
    /\ Done("make_list")
    /\ input.t = "text"
    /\ values = ItemsV(<<input>>)

\* a list of two returned as it is
C17_WitnessList ==
    /\ Done("make_list")
    /\ input.t = "list" /\ Len(input.l) = 2
    /\ values = input

LocationType == <<<<"1", "d">>, <<"2", "d">>>>

\* the validator as a mutant registers it: root_validator(pre=True)
RootValidatorPre_true == TRUE

\* root_validator(allow_reuse=True): the structural validators are registered
\* without pre=True
RootValidatorPre == FALSE

\* the validator as a mutant registers it: root_validator(skip_on_failure=True)
RootValidatorSkipOnFailure_true == TRUE

\* root_validator(allow_reuse=True): and without skip_on_failure=True
RootValidatorSkipOnFailure == FALSE

\* validator(*field_name, allow_reuse=True, pre=True): the validators of a
\* field, for the fields in declaration order, each field's in registration
\* order
FieldValidators ==
    <<[op |-> "enum", field |-> "locationtype", index |-> 0],
      [op |-> "split", field |-> "xcoordinates", index |-> 0],
      [op |-> "make_list", field |-> "xcoordinates", index |-> 0],
      [op |-> "split", field |-> "ycoordinates", index |-> 0],
      [op |-> "make_list", field |-> "ycoordinates", index |-> 0]>>

RootValidators(r) ==
    [k \in 1..Len(r.root_validators) |-> [op |-> "root", field |-> "", index |-> k]]

\* the order in which a validation calls the validators of a record type:
\* the root validators registered with pre=True, the validators of the fields,
\* the other root validators, each group in registration order
Schedule(r) ==
    IF RootValidatorPre THEN RootValidators(r) \o FieldValidators
    ELSE FieldValidators \o RootValidators(r)

\* the str an enum member or a text stands for, as the root validators read it
FromText(v) == IF v.t = "text" THEN StrV(Text(v.c)) ELSE v

\* one validator of a field called with the field's raw value
CallFieldValidator(step, v) ==
    CASE step.op = "enum" ->
             LET res == enum_validator([enum |-> LocationType], v)
             IN  IF res.raised THEN res ELSE Ok(FromText(res.values), <<>>)
      [] step.op = "split" -> split([delimiter |-> ";"], v)
      [] step.op = "make_list" -> make_list_split(v)

\* record types: a location validator and a required-fields validator on the
\* location type it writes, registered in either order; and two of a list
\* length, a required-fields and a forbidden-fields validator with two targets
RecordConfigurations ==
    [validate_node : BOOLEAN,
     validate_coordinates : {TRUE},
     validate_branch : {TRUE},
     validate_num_coordinates : BOOLEAN,
     minimum_num_coordinates : {0}]

RecordTypes ==
    LET A == [kind : {"location"}, config : RecordConfigurations,
              fields : {LocationValidationFieldNames}]
        B == {r \in FieldRules("required") :
                  /\ r.conditional_field_name = "locationtype"
                  /\ r.field_names = <<"chainage">>}
        C == {r \in ListLengthRules :
                  /\ r.field_names = <<"xcoordinates", "ycoordinates">>
                  /\ r.length_incr = 0 /\ r.min_length = 0
                  /\ r.list_required_with_length}
             \cup {r \in FieldRules("required") \cup FieldRules("forbidden") :
                      /\ r.conditional_field_name = "locationtype"
                      /\ r.conditional_value = StrV("1d")
                      /\ r.comparison_func = "eq"
                      /\ r.field_names = <<"branchid", "chainage">>}
    IN  [kind : {"record"},
         root_validators : {<<a, b>> : a \in A, b \in B} \cup {<<b, a>> : a \in A, b \in B}
                           \cup {cd \in C \X C : cd[1] # cd[2]}]

\* the raw mapping of a section: texts as read from a file, or typed values
RecordInputs ==
    LET a == TextV(<<"a">>)
        Coordinates == {Absent, a, TextV(<<"a", ";", "a">>), ItemsV(<<a, a>>)}
    IN  {[nodeid |-> n, branchid |-> b, chainage |-> ch, xcoordinates |-> x,
          ycoordinates |-> y, numcoordinates |-> num, locationtype |-> lt] :
            n \in {Absent, StrV("N1")},
            b \in {Absent, StrV("B1")},
            ch \in {Absent, IntV(10)},
            x \in Coordinates,
            y \in Coordinates,
            num \in {Absent, IntV(2)},
            lt \in {Absent, TextV(<<"1", "d">>), TextV(<<"1", "D">>),
                    TextV(<<"2", "D">>), IntV(5)}}

InitRecord ==
    /\ rule \in RecordTypes
    /\ input \in RecordInputs
    /\ values = input
    /\ pc = "raw"
    /\ raised = FALSE
    /\ msg = <<>>
    /\ calls = <<>>

\* the validator a validation calls next
NextStep == Schedule(rule)[Len(calls) + 1]

PcAfter == IF Len(calls) + 1 = Len(Schedule(rule)) THEN "done" ELSE "raw"

\* a validator of a field is called with the field's value; it is not called
\* for a field the mapping does not hold; an exception that is no ValueError,
\* TypeError or AssertionError ends the validation
NormalizeField ==
    /\ pc = "raw"
    /\ NextStep.op # "root"
    /\ LET step == NextStep
           called == values[step.field] # Absent
           res == IF called THEN CallFieldValidator(step, values[step.field])
                  ELSE Ok(Absent, <<>>)
           after == Put(values, step.field, res.values)
       IN  /\ calls' = Append(calls, [step |-> step, called |-> called,
                                      observed |-> values, result |-> after,
                                      raised |-> res.raised, msg |-> res.msg,
                                      calls |-> res.calls])
           /\ values' = after
           /\ raised' = (raised \/ res.raised)
           /\ msg' = msg \o res.msg
           /\ pc' = IF res.raised THEN "done" ELSE PcAfter
    /\ UNCHANGED <<rule, input>>

\* a root validator is called with the mapping as it is, unless it is one to
\* skip on failure and a validator has failed; its ValueError is collected
\* and the validation goes on with the next validator
ValidateRoot ==
    /\ pc = "raw"
    /\ NextStep.op = "root"
    /\ LET step == NextStep
           called == ~(RootValidatorSkipOnFailure /\ raised)
           res == IF called
                  THEN CallRootValidator(rule.root_validators[step.index], values)
                  ELSE Ok(values, <<>>)
       IN  /\ calls' = Append(calls, [step |-> step, called |-> called,
                                      observed |-> values, result |-> res.values,
                                      raised |-> res.raised, msg |-> res.msg,
                                      calls |-> res.calls])
           /\ values' = res.values
           /\ raised' = (raised \/ res.raised)
           /\ msg' = msg \o res.msg
           /\ pc' = PcAfter
    /\ UNCHANGED <<rule, input>>

NextRecord ==
    \/ NormalizeField
    \/ ValidateRoot

SpecRecord == InitRecord /\ [][NextRecord]_vars

\* the calls of root validators made so far, as positions of calls
RootCalls == {k \in DOMAIN calls : calls[k].step.op = "root"}

\* the root validator of a call
RuleOf(k) == rule.root_validators[calls[k].step.index]

\* C18: a rule registered after another observes the mapping as the earlier
\* rule left it: the location type the location rule wrote is the one a later
\* conditional rule on the location type reads and decides by.
C18_LaterRuleObservesEarlierWrite ==
    \A j, k \in RootCalls :
        calls[k].step.index = calls[j].step.index + 1 =>
            /\ j < k
            /\ calls[k].observed = calls[j].result
            /\ (/\ RuleOf(j).kind = "location"
                /\ ~calls[j].raised
                /\ "validate_location_type" \in Range(calls[j].calls))
                   => /\ calls[k].observed["locationtype"] = StrV(LocationType_oned)
                      /\ calls[k].raised =
                             validate_required_fields(
                                 RuleOf(k),
                                 Put(calls[j].observed, "locationtype",
                                     StrV(LocationType_oned))).raised

\* the location rule wrote the tag of a mapping that had none, and the rule
\* after it, on that tag, refused the mapping for it
C18_Witness ==
    /\ pc = "done"
    /\ \E j, k \in RootCalls :
           /\ calls[k].step.index = calls[j].step.index + 1
           /\ RuleOf(j).kind = "location"
           /\ calls[j].observed["locationtype"] = Absent
           /\ calls[j].result["locationtype"] = StrV("1d")
           /\ calls[k].observed["locationtype"] = StrV("1d")
           /\ calls[k].raised
           /\ ~validate_required_fields(RuleOf(k), calls[j].observed).raised

\* a value as the validators of its field leave it
IsNormalized(field, v) ==
    CASE field = "locationtype" -> v \in {Absent, StrV("1d"), StrV("2d")}
      [] field \in {"xcoordinates", "ycoordinates"} ->
             v = Absent \/ (v.t = "list" /\ \A i \in DOMAIN v.l : strip(v.l[i].c) = v.l[i].c)
      [] OTHER -> TRUE

\* C19: when a structural rule runs, every normalizer of the record has run,
\* so the mapping the rule observes holds normalized values only; and the
\* structural rules run in their registration order.
C19_NormalizeBeforeValidate ==
    \A k \in RootCalls :
        /\ \A f \in DOMAIN FieldValidators : f < k /\ calls[f].step = FieldValidators[f]
        /\ \A field \in AllFields : IsNormalized(field, calls[k].observed[field])
        /\ calls[k].step.index = Cardinality({j \in RootCalls : j < k}) + 1

\* both rules ran on a mapping whose coordinates were one text and whose
\* location type was written in another case
C19_Witness ==
    /\ pc = "done"
    /\ Cardinality(RootCalls) = 2
    /\ input["xcoordinates"] = TextV(<<"a", ";", "a">>)
    /\ input["ycoordinates"] = TextV(<<"a">>)
    /\ input["locationtype"] = TextV(<<"1", "D">>)
    /\ \A k \in RootCalls :
           /\ calls[k].observed["xcoordinates"] = ItemsV(<<TextV(<<"a">>), TextV(<<"a">>)>>)
           /\ calls[k].observed["ycoordinates"] = ItemsV(<<TextV(<<"a">>)>>)
           /\ calls[k].observed["locationtype"] = StrV("1d")

\* C21: a mapping whose x and y coordinates are both present and empty is
\* not accepted, whatever the configured minimum.
C21_EmptyCoordinatesRefused ==
    (/\ Done("location")
     /\ input["xcoordinates"] = ListV(0)
     /\ input["ycoordinates"] = ListV(0)) => raised

\* the fields of each form, and the location fields a mapping gives
FormFields ==
    [node |-> {"nodeid"},
     branch |-> {"branchid", "chainage"},
     coordinates |-> {"xcoordinates", "ycoordinates"},
     count |-> {"xcoordinates", "ycoordinates", "numcoordinates"}]

GivenFields ==
    {f \in AllFields \ {"locationtype"} :
        IF f \in {"nodeid", "branchid"} THEN IdGiven(f) ELSE Given(f)}

\* the four is_valid_... predicates, on the mapping given
PredicateHolds ==
    [node |-> is_valid_node_specification(rule, input),
     branch |-> is_valid_branch_specification(rule, input),
     coordinates |-> is_valid_coordinates_specification(rule, input),
     count |-> is_valid_coordinates_with_num_coordinates_specification(rule, input)]

\* the is_valid_... predicate evaluated last
LastPredicate == calls[CHOOSE k \in DOMAIN calls :
                           /\ calls[k] \in Range(PredicateOf)
                           /\ \A j \in DOMAIN calls : j > k => calls[j] \notin Range(PredicateOf)]

\* C22: at most one of the four form predicates holds for a mapping, each
\* exactly when the fields the mapping gives are the fields of its form; and a
\* mapping the rule accepts gives the fields of exactly one form, an enabled
\* one, and no other location field.
C22_FormsMutuallyExclusive ==
    rule.kind = "location" =>
        /\ Cardinality({f \in Forms : PredicateHolds[f]}) <= 1
        /\ \A f \in Forms : PredicateHolds[f] <=> GivenFields = FormFields[f]
        /\ (pc = "done" /\ ~raised) =>
               \E f \in Forms :
                   /\ FormTried[f]
                   /\ GivenFields = FormFields[f]
                   /\ LastPredicate = PredicateOf[f]
                   /\ \A g \in Forms \ {f} : GivenFields # FormFields[g]

\* a mapping with coordinates and their count, accepted
C22_Witness ==
    /\ Done("location") /\ ~raised
    /\ GivenFields = FormFields["count"]
    /\ PredicateHolds["count"] /\ ~PredicateHolds["coordinates"]

\* the violations of a chosen form
FormViolations(f) ==
    IF f \in {"node", "branch"}
    THEN {"locationType should be 1d but was " \o PyStr(input["locationtype"])}
    ELSE {"xCoordinates and yCoordinates should have at least "
              \o ToString(rule.config.minimum_num_coordinates) \o " coordinate(s)"}
         \cup (IF f = "count"
               THEN {"numCoordinates should be equal to the amount of xCoordinates and yCoordinates"}
               ELSE {"xCoordinates and yCoordinates should have an equal amount of coordinates"})

\* C23: when the mapping is in an enabled form and the rule fails, the
\* violation is that form's own (tag, lengths, count or minimum), no form after
\* it was tried, and the message is not the aggregate one.
C23_NoFallThroughAfterChosenForm ==
    Done("location") =>
        \A f \in Forms :
            (FormTried[f] /\ FormHolds[f] /\ raised) =>
                /\ Text(msg) \in FormViolations(f)
                /\ LastPredicate = PredicateOf[f]
                /\ msg[Len(msg)] # " should be provided"

\* a branch form with the tag 2d, refused for the tag while the coordinate
\* forms are enabled
C23_Witness ==
    /\ Done("location") /\ raised
    /\ BranchTried /\ BranchForm
    /\ rule.config.validate_coordinates
    /\ input["locationtype"] = StrV("2d")
    /\ Text(msg) = "locationType should be 1d but was 2d"

\* coordinates of unequal length, refused for that
C23_WitnessCoordinates ==
    /\ Done("location") /\ raised
    /\ CoordinateTried /\ CoordinateForm
    /\ Text(msg) = "xCoordinates and yCoordinates should have an equal amount of coordinates"

\* no form is enabled
NoFormEnabled ==
    /\ ~rule.config.validate_node
    /\ ~rule.config.validate_branch
    /\ ~rule.config.validate_coordinates

\* C28: with node, branch and coordinate validation all disabled the location
\* rule refuses every mapping, the message naming no alternative.
C28_NoFormEnabledRefusesAll ==
    (Done("location") /\ NoFormEnabled) =>
        /\ raised
        /\ Text(msg) = " should be provided"
        /\ calls = <<>>

\* a mapping without any location field, refused
C28_Witness ==
    /\ Done("location") /\ NoFormEnabled
    /\ GivenFields = {}
    /\ raised /\ Text(msg) = " should be provided"

\* the structural rules
StructuralKinds == {"list_length", "required", "forbidden", "conditional", "location"}

\* the fields whose value, an absent one read as null, is not the one given
Changed == {f \in AllFields : Get(values, f) # Get(input, f)}

\* C25: a structural rule that reports a violation leaves every field of the
\* mapping with the value it had; a failing location rule leaves no tag
\* written.
C25_FailureLeavesMappingUnchanged ==
    (pc = "done" /\ rule.kind \in StructuralKinds /\ raised) => Changed = {}

\* a node form whose tag is 2d: refused, the tag still 2d
C25_Witness ==
    /\ Done("location") /\ raised
    /\ NodeTried /\ NodeForm
    /\ input["locationtype"] = StrV("2d")
    /\ "validate_location_type" \in Range(calls)
    /\ values["locationtype"] = StrV("2d")

\* a guarded list length rule, refused
C25_WitnessGuard ==
    /\ Done("conditional") /\ raised
    /\ values = input

\* the location rule chose the node form or the branch form
NodeOrBranchChosen == (NodeTried /\ NodeForm) \/ (BranchTried /\ BranchForm)

\* C29: a list length, required or forbidden rule that accepts a mapping
\* leaves every field unchanged; a location rule that accepts one changes at
\* most the location type tag, and changes it (to 1d) exactly when the tag was
\* absent or empty and the node or branch form was chosen.
C29_SuccessFrame ==
    (pc = "done" /\ ~raised) =>
        /\ rule.kind \in {"list_length", "required", "forbidden"} => Changed = {}
        /\ rule.kind = "location" =>
               /\ Changed \subseteq {"locationtype"}
               /\ Changed = {"locationtype"} <=>
                      /\ str_is_empty_or_none(Get(input, "locationtype"))
                      /\ NodeOrBranchChosen
               /\ Changed = {"locationtype"} => values["locationtype"] = StrV("1d")

\* a branch form with an empty tag, accepted with the tag written
C29_Witness ==
    /\ Done("location") /\ ~raised
    /\ BranchTried /\ BranchForm
    /\ input["locationtype"] = StrV("")
    /\ Changed = {"locationtype"}
    /\ values["locationtype"] = StrV("1d")

\* coordinates without tag, accepted with nothing written
C29_WitnessCoordinates ==
    /\ Done("location") /\ ~raised
    /\ CoordinateWithCountTried /\ CoordinateWithCountForm
    /\ input["locationtype"] = Absent
    /\ Changed = {}

\* C27: the resolve mode computed from the raw data is the one the model
\* validated from that data reports: ToParent exactly when
\* pathsRelativeToParent is true, ToAnchor otherwise, the default included.
C27_RelativeModesAgree ==
    (Done("fmmodel") /\ ~raised) =>
        /\ values.relative_mode = StrV(values.from_data)
        /\ values.from_data = "ToParent"
               <=> values.model.general.pathsrelativetoparent = BoolV(TRUE)

\* the targets of a list length, required or forbidden rule that its check
\* refuses, for the mapping vals
ViolatingTargets(r, vals) ==
    {k \in DOMAIN r.field_names :
        LET target == Get(vals, r.field_names[k])
        IN  CASE r.kind = "required" -> ConditionHolds(r, vals) /\ target = None
              [] r.kind = "forbidden" -> ConditionHolds(r, vals) /\ target # None
              [] r.kind = "list_length" ->
                     LET count == Get(vals, r.length_name)
                         required == IF count = None THEN 0
                                     ELSE Max(count.i + r.length_incr, r.min_length)
                     IN  /\ count # None
                         /\ \/ target # None /\ Len(target.l) # required
                            \/ target = None /\ r.list_required_with_length /\ required > 0
              [] OTHER -> FALSE}

\* the root validator calls that raised
Violations == {k \in RootCalls : calls[k].raised}

\* the messages of the calls log[k..], in the order of the calls
RECURSIVE Messages(_, _)
Messages(log, k) ==
    IF k > Len(log) THEN <<>> ELSE log[k].msg \o Messages(log, k + 1)

\* C24: a list length, required or forbidden rule reports its first violating
\* target only; every rule of the record is called whatever the rules before
\* it reported, so a validation collects one violation for each rule that is
\* violated.
C24_FirstTargetPerRuleAllRulesRun ==
    /\ \A k \in RootCalls :
           /\ calls[k].called
           /\ calls[k].raised = CallRootValidator(RuleOf(k), calls[k].observed).raised
           /\ RuleOf(k).kind \in {"list_length", "required", "forbidden"} =>
                  LET violating == ViolatingTargets(RuleOf(k), calls[k].observed)
                      names == RuleOf(k).field_names
                  IN  /\ calls[k].raised <=> violating # {}
                      /\ calls[k].raised =>
                             \A t \in DOMAIN names :
                                 names[t] \in Range(calls[k].msg)
                                     <=> (t \in violating /\ \A u \in violating : t <= u)
    /\ msg = Messages(calls, 1)
    /\ (pc = "done" /\ Len(calls) = Len(Schedule(rule)))
           => Cardinality(RootCalls) = Len(rule.root_validators)

\* both rules of a record refused the mapping, each with two violating targets
C24_Witness ==
    /\ pc = "done"
    /\ Cardinality(Violations) = 2
    /\ \A k \in Violations :
           /\ RuleOf(k).kind \in {"list_length", "required", "forbidden"}
           /\ Cardinality(ViolatingTargets(RuleOf(k), calls[k].observed)) = 2
           /\ RuleOf(k).field_names[1] \in Range(calls[k].msg)
           /\ RuleOf(k).field_names[2] \notin Range(calls[k].msg)

\* ------------------------------------------- concurrent validation of records

\* the records validated at the same time
Instances == {1, 2}

\* the frame of a call as a mutant has it: one frame for all calls
LocalsOf_shared(i) == 1

\* def validate_...(cls, values): the arguments and the local variables of a
\* call are the call's own
LocalsOf(i) == i

\* record types of two root validators, the fields validated already
ConcurrentTypes ==
    LET location == [kind |-> "location",
                     config |-> [validate_node |-> TRUE, validate_coordinates |-> TRUE,
                                 validate_branch |-> TRUE,
                                 validate_num_coordinates |-> TRUE,
                                 minimum_num_coordinates |-> 0],
                     fields |-> LocationValidationFieldNames]
        condition == [conditional_field_name |-> "locationtype",
                      conditional_value |-> StrV("1d"), comparison_func |-> "eq"]
        required == WithCondition([kind |-> "required", field_names |-> <<"chainage">>],
                                  condition)
        forbidden == WithCondition([kind |-> "forbidden",
                                    field_names |-> <<"branchid", "chainage">>], condition)
        list_length == [kind |-> "list_length",
                        field_names |-> <<"xcoordinates", "ycoordinates">>,
                        length_name |-> "numcoordinates", length_incr |-> 0,
                        list_required_with_length |-> TRUE, min_length |-> 0]
    IN  [kind : {"record"},
         root_validators : {<<location, required>>, <<location, forbidden>>,
                            <<list_length, location>>}]

ConcurrentInputs ==
    {EmptyValues,
     [EmptyValues EXCEPT !["nodeid"] = StrV("N1")],
     [EmptyValues EXCEPT !["nodeid"] = StrV("N1"), !["locationtype"] = StrV("2d")],
     [EmptyValues EXCEPT !["branchid"] = StrV("B1"), !["chainage"] = IntV(10)],
     [EmptyValues EXCEPT !["branchid"] = StrV("B1"), !["chainage"] = IntV(10),
                         !["locationtype"] = StrV("1d")],
     [EmptyValues EXCEPT !["xcoordinates"] = ListV(2), !["ycoordinates"] = ListV(2),
                         !["numcoordinates"] = IntV(2)],
     [EmptyValues EXCEPT !["xcoordinates"] = ListV(1), !["ycoordinates"] = ListV(2),
                         !["numcoordinates"] = IntV(2)],
     [EmptyValues EXCEPT !["xcoordinates"] = ListV(1), !["numcoordinates"] = IntV(1),
                         !["locationtype"] = StrV("1d")]}

\* values.of[i] is the mapping of instance i, values.locals[f] the mapping the
\* call with frame f was handed (0: none)
InitConcurrent ==
    /\ rule \in [Instances -> ConcurrentTypes]
    /\ input \in [Instances -> ConcurrentInputs]
    /\ values = [of |-> input, locals |-> [i \in Instances |-> 0]]
    /\ pc = [i \in Instances |-> "raw"]
    /\ raised = [i \in Instances |-> FALSE]
    /\ msg = [i \in Instances |-> <<>>]
    /\ calls = [i \in Instances |-> <<>>]

\* the validation of instance i calls its next root validator with the
\* instance's mapping
Enter(i) ==
    /\ pc[i] = "raw"
    /\ Len(calls[i]) < Len(rule[i].root_validators)
    /\ values' = [values EXCEPT !.locals[LocalsOf(i)] = i]
    /\ pc' = [pc EXCEPT ![i] = "entered"]
    /\ UNCHANGED <<rule, input, raised, msg, calls>>

\* the validator called for instance i runs, on the mapping it was handed, and
\* returns or raises
Body(i) ==
    /\ pc[i] = "entered"
    /\ LET k == Len(calls[i]) + 1
           handed == values.locals[LocalsOf(i)]
           res == CallRootValidator(rule[i].root_validators[k], values.of[handed])
       IN  /\ values' = [values EXCEPT !.of[handed] = res.values]
           /\ raised' = [raised EXCEPT ![i] = raised[i] \/ res.raised]
           /\ msg' = [msg EXCEPT ![i] = msg[i] \o res.msg]
           /\ calls' = [calls EXCEPT ![i] = Append(calls[i], k)]
           /\ pc' = [pc EXCEPT ![i] = IF k = Len(rule[i].root_validators)
                                      THEN "done" ELSE "raw"]
    /\ UNCHANGED <<rule, input>>

NextConcurrent ==
    \E i \in Instances : Enter(i) \/ Body(i)

SpecConcurrent == InitConcurrent /\ [][NextConcurrent]_vars

\* a record validated alone: the first n root validators of its type called
\* in order on the mapping vals, the violations collected
RECURSIVE Alone(_, _, _)
Alone(validators, vals, n) ==
    IF n = 0 THEN [values |-> vals, raised |-> FALSE, msg |-> <<>>]
    ELSE LET before == Alone(validators, vals, n - 1)
             res == CallRootValidator(validators[n], before.values)
         IN  [values |-> res.values,
              raised |-> (before.raised \/ res.raised),
              msg |-> before.msg \o res.msg]

\* the state of instance i is the one of its validation alone, so far
AsAlone(i) ==
    LET alone == Alone(rule[i].root_validators, input[i], Len(calls[i]))
    IN  /\ values.of[i] = alone.values
        /\ raised[i] = alone.raised
        /\ msg[i] = alone.msg

C26_WitnessDone ==
    /\ \A i \in Instances : pc[i] = "done"
    /\ raised[1] /\ ~raised[2]
    /\ rule[1] # rule[2]

====
